---- MODULE Spec2Model ----
(***************************************************************************)
(* The pointer-driven drag controller of packages/web/src/main.rs: the     *)
(* Movable component, its six signals and its six event handlers, together *)
(* with the host's pointer-capture set of the rendered root element.       *)
(*                                                                         *)
(* Every signal is a function from the Movable instance to its value, so   *)
(* that the same handlers serve one or several instances.  Coordinates are *)
(* f64 in the source; the handlers only add and subtract them, and the     *)
(* model draws them from a small integer range.                            *)
(***************************************************************************)
EXTENDS Integers, Sequences, FiniteSets, TLC

\* ---------------------------------------------------------------- bounds
NumPointers == 2     \* pointer ids the host uses
MaxCoord    == 1     \* client points (x, y) with x, y >= 0 and x + y <= MaxCoord
MaxDrift    == 1     \* positions explored: at most MaxDrift away from the initial one

\* ------------------------------------------------------- program values
InitialCoord == 100  \* use_signal(|| (100.0, 100.0))

None    == << >>
Some(v) == << v >>

PointerIds == 1..NumPointers
Handles    == {"root"}   \* the MountedData of the component's one root div
Coords     == 0..MaxCoord
Points     == {c \in Coords \X Coords : c[1] + c[2] <= MaxCoord}
Primary    == "Primary"
Buttons    == {Some(Primary), Some("Secondary")}   \* trigger_button() of a pointerdown

InitialPosition == <<InitialCoord, InitialCoord>>
InitialOrigin   == <<0, 0>>

Abs(n) == IF n < 0 THEN -n ELSE n

\* The positions the model explores (the source has no such limit).
InRange(pos) ==
  Abs(pos[1] - InitialCoord) + Abs(pos[2] - InitialCoord) <= MaxDrift

VARIABLES
  position,           \* instance -> (x, y)
  dragging,           \* instance -> BOOLEAN
  mounted,            \* instance -> None | Some(handle)
  active_pointer_id,  \* instance -> None | Some(pointer id)
  click_origin,       \* instance -> (x, y)
  modal_origin,       \* instance -> (x, y)
  captured,           \* instance -> pointer ids the root element has captured
  event,              \* the event the host delivered last
  calls,              \* the capture calls the last handler issued
  owner_before        \* active_pointer_id of the event's target before it

fields == <<position, dragging, mounted, active_pointer_id,
            click_origin, modal_origin>>
vars   == <<position, dragging, mounted, active_pointer_id,
            click_origin, modal_origin, captured, event, calls,
            owner_before>>

Instances == DOMAIN position

\* Variant: one signal shared by all instances (a global instead of a
\* per-instance use_signal).
Upd_shared(f, i, v) == [j \in DOMAIN f |-> v]

Upd(f, i, v) == [f EXCEPT ![i] = v]

\* The last event: its kind, the instance it was delivered to, its pointer
\* id, its trigger button (pointerdown) and its client coordinates
\* (pointerdown and pointermove; see Clients).
Ev(k, i, p, b, c) ==
  [kind |-> k, target |-> i, pointer_id |-> p, button |-> b, client |-> c]

NoEvent == Ev("none", 0, 0, None, InitialOrigin)

Call(op, p) == [op |-> op, pointer_id |-> p]

InitFor(I) ==
  /\ position          = [i \in I |-> InitialPosition]
  /\ dragging          = [i \in I |-> FALSE]
  /\ mounted           = [i \in I |-> None]
  /\ active_pointer_id = [i \in I |-> None]
  /\ click_origin      = [i \in I |-> InitialOrigin]
  /\ modal_origin      = [i \in I |-> InitialOrigin]
  /\ captured          = [i \in I |-> {}]
  /\ event             = NoEvent
  /\ calls             = << >>
  /\ owner_before      = None

Init == InitFor({1})

\* ------------------------------------------------------------- helpers

\* Variant: the capture call is issued without looking at the handle.
element_unchecked(i) == Some("root")

\* mounted.read().as_ref().and_then(|m| m.as_ref().try_as_web_event())
element(i) == mounted[i]

\* Host side of element.set_pointer_capture(p) / release_pointer_capture(p):
\* a call that succeeds changes the element's captured set, one that fails
\* (Err, discarded by `let _ =`) leaves it alone.
set_pointer_capture(i, p, ok) ==
  IF ok THEN Upd(captured, i, captured[i] \cup {p}) ELSE captured

release_pointer_capture(i, p, ok) ==
  IF ok THEN Upd(captured, i, captured[i] \ {p}) ELSE captured

\* Variant: the button test is missing.
down_ignored_never(b) == FALSE

down_ignored(b) == b # Some(Primary)

\* Variant: the owner test is missing.
move_ignored_no_owner(i, p) == ~dragging[i]

move_ignored(i, p) ==
  \/ ~dragging[i]
  \/ active_pointer_id[i] # Some(p)

\* Variant: the test is inverted, so the owner's pointerup is dropped.
up_ignored_owner(i, p) == active_pointer_id[i] = Some(p)

\* Variant: the owner test is missing.
up_ignored_never(i, p) == FALSE

up_ignored(i, p) == active_pointer_id[i] # Some(p)

\* Variant: only an idle controller ignores the event.
cancel_ignored_idle_only(i, p) == active_pointer_id[i] = None

cancel_ignored(i, p) == active_pointer_id[i] # Some(p)

\* Variant: the click origin is not subtracted.
displaced_no_origin(modal, origin, mouse) ==
  << modal[1] + mouse[1], modal[2] + mouse[2] >>

\* delta = mouse - origin; position = modal + delta
displaced(modal, origin, mouse) ==
  << modal[1] + (mouse[1] - origin[1]),
     modal[2] + (mouse[2] - origin[2]) >>

\* ------------------------------------------------------------ handlers

\* Variant: a mount puts the element back at its initial position.
onmounted_resets_position(i, h) ==
  /\ event' = Ev("mounted", i, 0, None, InitialOrigin)
  /\ owner_before' = active_pointer_id[i]
  /\ calls' = << >>
  /\ mounted' = Upd(mounted, i, Some(h))
  /\ position' = Upd(position, i, InitialPosition)
  /\ UNCHANGED <<dragging, active_pointer_id, click_origin, modal_origin,
                 captured>>

\* Variant: a mount ends the drag in progress.
onmounted_ends_drag(i, h) ==
  /\ event' = Ev("mounted", i, 0, None, InitialOrigin)
  /\ owner_before' = active_pointer_id[i]
  /\ calls' = << >>
  /\ mounted' = Upd(mounted, i, Some(h))
  /\ active_pointer_id' = Upd(active_pointer_id, i, None)
  /\ dragging' = Upd(dragging, i, FALSE)
  /\ UNCHANGED <<position, click_origin, modal_origin, captured>>

onmounted(i, h) ==
  /\ event' = Ev("mounted", i, 0, None, InitialOrigin)
  /\ owner_before' = active_pointer_id[i]
  /\ calls' = << >>
  /\ mounted' = Upd(mounted, i, Some(h))
  /\ UNCHANGED <<position, dragging, active_pointer_id, click_origin,
                 modal_origin, captured>>

\* Variant: the click origin of the new session is not recorded.
onpointerdown_keeps_click(i, p, b, c, ok) ==
  /\ event' = Ev("pointerdown", i, p, b, c)
  /\ owner_before' = active_pointer_id[i]
  /\ IF down_ignored(b)
       THEN /\ calls' = << >>
            /\ UNCHANGED <<fields, captured>>
       ELSE /\ IF element(i) # None
                 THEN /\ calls' = << Call("set_pointer_capture", p) >>
                      /\ captured' = set_pointer_capture(i, p, ok)
                 ELSE /\ calls' = << >>
                      /\ UNCHANGED captured
            /\ modal_origin' = Upd(modal_origin, i, position[i])
            /\ active_pointer_id' = Upd(active_pointer_id, i, Some(p))
            /\ dragging' = Upd(dragging, i, TRUE)
            /\ UNCHANGED <<position, mounted, click_origin>>

onpointerdown(i, p, b, c, ok) ==
  /\ event' = Ev("pointerdown", i, p, b, c)
  /\ owner_before' = active_pointer_id[i]
  /\ IF down_ignored(b)
       THEN /\ calls' = << >>
            /\ UNCHANGED <<fields, captured>>
       ELSE /\ IF element(i) # None
                 THEN /\ calls' = << Call("set_pointer_capture", p) >>
                      /\ captured' = set_pointer_capture(i, p, ok)
                 ELSE /\ calls' = << >>
                      /\ UNCHANGED captured
            /\ click_origin' = Upd(click_origin, i, c)
            /\ modal_origin' = Upd(modal_origin, i, position[i])
            /\ active_pointer_id' = Upd(active_pointer_id, i, Some(p))
            /\ dragging' = Upd(dragging, i, TRUE)
            /\ UNCHANGED <<position, mounted>>

\* Variant: the displacement is added to the current position instead of
\* the position recorded at drag start.
onpointermove_accumulates(i, p, c) ==
  /\ event' = Ev("pointermove", i, p, None, c)
  /\ owner_before' = active_pointer_id[i]
  /\ calls' = << >>
  /\ IF move_ignored(i, p)
       THEN UNCHANGED <<fields, captured>>
       ELSE /\ position' =
                 Upd(position, i, displaced(position[i], click_origin[i], c))
            /\ InRange(position'[i])
            /\ UNCHANGED <<dragging, mounted, active_pointer_id,
                           click_origin, modal_origin, captured>>

onpointermove(i, p, c) ==
  /\ event' = Ev("pointermove", i, p, None, c)
  /\ owner_before' = active_pointer_id[i]
  /\ calls' = << >>
  /\ IF move_ignored(i, p)
       THEN UNCHANGED <<fields, captured>>
       ELSE /\ position' =
                 Upd(position, i, displaced(modal_origin[i], click_origin[i], c))
            /\ InRange(position'[i])
            /\ UNCHANGED <<dragging, mounted, active_pointer_id,
                           click_origin, modal_origin, captured>>

\* Variant: a failed release is propagated (`?` instead of `let _ =`), so
\* the handler returns before it clears the drag state.
onpointerup_propagates(i, p, ok) ==
  /\ event' = Ev("pointerup", i, p, None, InitialOrigin)
  /\ owner_before' = active_pointer_id[i]
  /\ IF up_ignored(i, p)
       THEN /\ calls' = << >>
            /\ UNCHANGED <<fields, captured>>
       ELSE IF element(i) # None /\ ~ok
       THEN /\ calls' = << Call("release_pointer_capture", p) >>
            /\ UNCHANGED <<fields, captured>>
       ELSE /\ IF element(i) # None
                 THEN /\ calls' = << Call("release_pointer_capture", p) >>
                      /\ captured' = release_pointer_capture(i, p, ok)
                 ELSE /\ calls' = << >>
                      /\ UNCHANGED captured
            /\ active_pointer_id' = Upd(active_pointer_id, i, None)
            /\ dragging' = Upd(dragging, i, FALSE)
            /\ UNCHANGED <<position, mounted, click_origin, modal_origin>>

onpointerup(i, p, ok) ==
  /\ event' = Ev("pointerup", i, p, None, InitialOrigin)
  /\ owner_before' = active_pointer_id[i]
  /\ IF up_ignored(i, p)
       THEN /\ calls' = << >>
            /\ UNCHANGED <<fields, captured>>
       ELSE /\ IF element(i) # None
                 THEN /\ calls' = << Call("release_pointer_capture", p) >>
                      /\ captured' = release_pointer_capture(i, p, ok)
                 ELSE /\ calls' = << >>
                      /\ UNCHANGED captured
            /\ active_pointer_id' = Upd(active_pointer_id, i, None)
            /\ dragging' = Upd(dragging, i, FALSE)
            /\ UNCHANGED <<position, mounted, click_origin, modal_origin>>

\* Variant: a cancelled drag also clears the reference points.
onpointercancel_resets_origins(i, p, ok) ==
  /\ event' = Ev("pointercancel", i, p, None, InitialOrigin)
  /\ owner_before' = active_pointer_id[i]
  /\ IF cancel_ignored(i, p)
       THEN /\ calls' = << >>
            /\ UNCHANGED <<fields, captured>>
       ELSE /\ IF element(i) # None
                 THEN /\ calls' = << Call("release_pointer_capture", p) >>
                      /\ captured' = release_pointer_capture(i, p, ok)
                 ELSE /\ calls' = << >>
                      /\ UNCHANGED captured
            /\ active_pointer_id' = Upd(active_pointer_id, i, None)
            /\ dragging' = Upd(dragging, i, FALSE)
            /\ click_origin' = Upd(click_origin, i, InitialOrigin)
            /\ modal_origin' = Upd(modal_origin, i, InitialOrigin)
            /\ UNCHANGED <<position, mounted>>

onpointercancel(i, p, ok) ==
  /\ event' = Ev("pointercancel", i, p, None, InitialOrigin)
  /\ owner_before' = active_pointer_id[i]
  /\ IF cancel_ignored(i, p)
       THEN /\ calls' = << >>
            /\ UNCHANGED <<fields, captured>>
       ELSE /\ IF element(i) # None
                 THEN /\ calls' = << Call("release_pointer_capture", p) >>
                      /\ captured' = release_pointer_capture(i, p, ok)
                 ELSE /\ calls' = << >>
                      /\ UNCHANGED captured
            /\ active_pointer_id' = Upd(active_pointer_id, i, None)
            /\ dragging' = Upd(dragging, i, FALSE)
            /\ UNCHANGED <<position, mounted, click_origin, modal_origin>>

\* Variant: the owner is not cleared.
onlostpointercapture_keeps_owner(i, p) ==
  /\ event' = Ev("lostpointercapture", i, p, None, InitialOrigin)
  /\ owner_before' = active_pointer_id[i]
  /\ calls' = << >>
  /\ captured' = Upd(captured, i, captured[i] \ {p})
  /\ dragging' = Upd(dragging, i, FALSE)
  /\ UNCHANGED <<position, mounted, active_pointer_id, click_origin,
                 modal_origin>>

\* Variant: guarded by the owner, as pointerup and pointercancel are.
onlostpointercapture_guarded(i, p) ==
  /\ event' = Ev("lostpointercapture", i, p, None, InitialOrigin)
  /\ owner_before' = active_pointer_id[i]
  /\ calls' = << >>
  /\ captured' = Upd(captured, i, captured[i] \ {p})
  /\ IF active_pointer_id[i] # Some(p)
       THEN UNCHANGED fields
       ELSE /\ active_pointer_id' = Upd(active_pointer_id, i, None)
            /\ dragging' = Upd(dragging, i, FALSE)
            /\ UNCHANGED <<position, mounted, click_origin, modal_origin>>

\* The host tells the element that it no longer captures pointer p: either
\* the host revoked the capture (p leaves the captured set) or the capture
\* was already released.  The handler takes no notice of the event's data.
onlostpointercapture(i, p) ==
  /\ event' = Ev("lostpointercapture", i, p, None, InitialOrigin)
  /\ owner_before' = active_pointer_id[i]
  /\ calls' = << >>
  /\ captured' = Upd(captured, i, captured[i] \ {p})
  /\ active_pointer_id' = Upd(active_pointer_id, i, None)
  /\ dragging' = Upd(dragging, i, FALSE)
  /\ UNCHANGED <<position, mounted, click_origin, modal_origin>>

\* ------------------------------------------------------- specifications

\* The results the host may give a capture call, drawn from K; when the
\* handler makes no call there is no result to choose.
Outcomes(K, called) == IF called THEN K ELSE {TRUE}

\* The client points an event may carry; a handler that returns before it
\* reads the coordinates takes the same step for every one of them, and one
\* point stands for all.
Clients(read) == IF read THEN Points ELSE {InitialOrigin}

Mount          == \E i \in Instances, h \in Handles : onmounted(i, h)
PointerDown(K) == \E i \in Instances, p \in PointerIds, b \in Buttons :
                     \E c \in Clients(~down_ignored(b)) :
                     \E ok \in Outcomes(K, ~down_ignored(b) /\ element(i) # None) :
                        onpointerdown(i, p, b, c, ok)
PointerMove    == \E i \in Instances, p \in PointerIds :
                     \E c \in Clients(~move_ignored(i, p)) :
                        onpointermove(i, p, c)
PointerUp(K)   == \E i \in Instances, p \in PointerIds :
                     \E ok \in Outcomes(K, ~up_ignored(i, p) /\ element(i) # None) :
                        onpointerup(i, p, ok)
PointerCancel(K) == \E i \in Instances, p \in PointerIds :
                     \E ok \in Outcomes(K, ~cancel_ignored(i, p) /\ element(i) # None) :
                        onpointercancel(i, p, ok)
LostPointerCapture == \E i \in Instances, p \in PointerIds :
                     onlostpointercapture(i, p)
\* The host revokes a capture the element holds and reports it.
Revocation     == \E i \in Instances : \E p \in captured[i] :
                     onlostpointercapture(i, p)

\* Any host: capture calls may succeed or fail, and lostpointercapture may
\* arrive for any pointer at any time.
Next ==
  \/ Mount
  \/ PointerDown(BOOLEAN)
  \/ PointerMove
  \/ PointerUp(BOOLEAN)
  \/ PointerCancel(BOOLEAN)
  \/ LostPointerCapture

Spec == Init /\ [][Next]_vars

\* Well-behaved host: capture calls on a mounted handle always succeed, and
\* lostpointercapture is delivered only when the host revokes a capture the
\* element holds.
NextReliable ==
  \/ Mount
  \/ PointerDown({TRUE})
  \/ PointerMove
  \/ PointerUp({TRUE})
  \/ PointerCancel({TRUE})
  \/ Revocation

SpecReliable == Init /\ [][NextReliable]_vars

\* A host whose capture calls all fail (the pointer id is unknown to it),
\* so the captured sets stay empty; events arrive as under Next.
NextNoCapture ==
  \/ Mount
  \/ PointerDown({FALSE})
  \/ PointerMove
  \/ PointerUp({FALSE})
  \/ PointerCancel({FALSE})
  \/ LostPointerCapture

\* The events that end a drag: pointerup or pointercancel of the owner, or
\* lostpointercapture.
Terminate ==
  \E i \in Instances : \E p \in PointerIds :
    \/ /\ active_pointer_id[i] = Some(p)
       /\ \E ok \in Outcomes({FALSE}, element(i) # None) :
            onpointerup(i, p, ok) \/ onpointercancel(i, p, ok)
    \/ /\ dragging[i]
       /\ onlostpointercapture(i, p)

\* A host that, while a drag is open, eventually delivers one of the events
\* that end it, and whose capture calls fail.
SpecLive == Init /\ [][NextNoCapture]_vars /\ WF_vars(Terminate)

\* Two runs of the controller on one event stream.  Instance 1 is mounted
\* at any time and its capture calls succeed or fail; instance 2 is never
\* mounted.  The host delivers an event to instance 1 and then the same
\* event to instance 2.
InitPair == InitFor({1, 2})

\* The last event has reached both instances.
InStep == event.target # 1 \/ event.kind = "mounted"

MountFirst == InStep /\ \E h \in Handles : onmounted(1, h)

DeliverFirst ==
  /\ InStep
  /\ \E p \in PointerIds :
       \/ \E b \in Buttons : \E c \in Clients(~down_ignored(b)) :
            \E ok \in Outcomes(BOOLEAN, ~down_ignored(b) /\ element(1) # None) :
              onpointerdown(1, p, b, c, ok)
       \/ \E c \in Clients(~move_ignored(1, p)) : onpointermove(1, p, c)
       \/ \E ok \in Outcomes(BOOLEAN, ~up_ignored(1, p) /\ element(1) # None) :
            onpointerup(1, p, ok)
       \/ \E ok \in Outcomes(BOOLEAN, ~cancel_ignored(1, p) /\ element(1) # None) :
            onpointercancel(1, p, ok)
       \/ onlostpointercapture(1, p)

ReplaySecond ==
  /\ ~InStep
  /\ \/ /\ event.kind = "pointerdown"
        /\ onpointerdown(2, event.pointer_id, event.button, event.client, TRUE)
     \/ /\ event.kind = "pointermove"
        /\ onpointermove(2, event.pointer_id, event.client)
     \/ /\ event.kind = "pointerup"
        /\ onpointerup(2, event.pointer_id, TRUE)
     \/ /\ event.kind = "pointercancel"
        /\ onpointercancel(2, event.pointer_id, TRUE)
     \/ /\ event.kind = "lostpointercapture"
        /\ onlostpointercapture(2, event.pointer_id)

NextPair ==
  \/ MountFirst
  \/ DeliverFirst
  \/ ReplaySecond

SpecPair == InitPair /\ [][NextPair]_vars

\* Two instances, each receiving any event at any time, under the host
\* whose capture calls fail.
SpecTwo == InitPair /\ [][NextNoCapture]_vars

TypeOK ==
  /\ \A i \in Instances :
       /\ InRange(position[i])
       /\ dragging[i] \in BOOLEAN
       /\ mounted[i] \in {None} \cup {Some(h) : h \in Handles}
       /\ active_pointer_id[i] \in {None} \cup {Some(p) : p \in PointerIds}
       /\ click_origin[i] \in Points
       /\ captured[i] \subseteq PointerIds
  /\ Len(calls) <= 1

\* -------------------------------------------------------------- claims

\* The signals of instance i that the handlers own.
Fields(i) == <<position[i], dragging[i], mounted[i], active_pointer_id[i],
               click_origin[i], modal_origin[i]>>

\* The step delivers an event of one of the kinds to instance i.
Delivered(i, kinds) == event'.target = i /\ event'.kind \in kinds

Idle(i)        == ~dragging[i]
Dragging(i, a) == dragging[i] /\ active_pointer_id[i] = Some(a)

\* Every event, with every input, has an outcome in the current state.
Accepts(i) ==
  /\ \A h \in Handles : ENABLED onmounted(i, h)
  /\ \A p \in PointerIds, b \in Buttons :
       \A c \in Clients(~down_ignored(b)), ok \in BOOLEAN :
         ENABLED onpointerdown(i, p, b, c, ok)
  /\ \A p \in PointerIds :
       \A c \in Clients(~move_ignored(i, p)) :
         InRange(displaced(modal_origin[i], click_origin[i], c))
         => ENABLED onpointermove(i, p, c)
  /\ \A p \in PointerIds, ok \in BOOLEAN :
       ENABLED onpointerup(i, p, ok) /\ ENABLED onpointercancel(i, p, ok)
  /\ \A p \in PointerIds : ENABLED onlostpointercapture(i, p)

\* C1: in every reachable state the dragging flag is true exactly when an
\* owner pointer id is set, and every event is accepted.
C1_DraggingIffOwner ==
  \A i \in Instances :
    /\ dragging[i] <=> active_pointer_id[i] # None
    /\ Accepts(i)

\* C1 witness: a drag that moved the element was ended by capture loss.
C1_Witness ==
  \E i \in Instances :
    /\ event.kind = "lostpointercapture" /\ event.target = i
    /\ owner_before # None
    /\ position[i] # InitialPosition
    /\ ~dragging[i] /\ active_pointer_id[i] = None

\* C2 (as claimed): while Dragging(A) no pointerdown, pointermove, pointerup
\* or pointercancel of another pointer changes owner, origins or position,
\* and the owner changes only on pointerup(A), pointercancel(A) or
\* lostpointercapture.
C2_ExclusiveOwnership ==
  [][\A i \in Instances : \A a \in PointerIds :
       Dragging(i, a) =>
         /\ ( /\ Delivered(i, {"pointerdown", "pointermove", "pointerup",
                                "pointercancel"})
              /\ event'.pointer_id # a )
            => /\ active_pointer_id'[i] = active_pointer_id[i]
               /\ click_origin'[i] = click_origin[i]
               /\ modal_origin'[i] = modal_origin[i]
               /\ position'[i] = position[i]
         /\ active_pointer_id'[i] # Some(a)
            => \/ Delivered(i, {"pointerup", "pointercancel"})
                    /\ event'.pointer_id = a
               \/ Delivered(i, {"lostpointercapture"})
    ]_vars

\* C3 (as claimed): when capture calls on a mounted handle succeed, an Idle
\* controller's element holds no pointer capture.
C3_NoDanglingCapture ==
  \A i \in Instances : Idle(i) => captured[i] = {}

\* C4: a pointermove of a pointer that is not the owner, or one delivered
\* while Idle, changes none of the instance's signals.
C4_ForeignMoveIgnored ==
  [][\A i \in Instances :
       ( /\ Delivered(i, {"pointermove"})
         /\ \/ Idle(i)
            \/ active_pointer_id[i] # Some(event'.pointer_id) )
       => Fields(i)' = Fields(i)
    ]_vars

\* C4 witness: pointer 2 moved to another place while pointer 1 owns a drag
\* that has already displaced the element.
C4_Witness ==
  \E i \in Instances :
    /\ event.kind = "pointermove" /\ event.target = i
    /\ event.pointer_id = 2
    /\ owner_before = Some(1) /\ Dragging(i, 1)
    /\ position[i] # modal_origin[i]

\* C5: a pointermove of the owner sets position to
\* positionOrigin + (client - clickOrigin), component-wise, and leaves both
\* origins unchanged.
C5_DisplacementLaw ==
  [][\A i \in Instances :
       ( /\ Delivered(i, {"pointermove"})
         /\ dragging[i]
         /\ active_pointer_id[i] = Some(event'.pointer_id) )
       => /\ position'[i][1]
               = modal_origin[i][1] + (event'.client[1] - click_origin[i][1])
          /\ position'[i][2]
               = modal_origin[i][2] + (event'.client[2] - click_origin[i][2])
          /\ click_origin'[i] = click_origin[i]
          /\ modal_origin'[i] = modal_origin[i]
    ]_vars

\* C5 witness: a drag started at (100,101) with click origin (0,1); the
\* owner moved to (1,0), which gives (101,100).
C5_Witness ==
  \E i \in Instances :
    /\ event.kind = "pointermove" /\ event.target = i
    /\ owner_before = Some(event.pointer_id) /\ dragging[i]
    /\ modal_origin[i] = <<100, 101>> /\ click_origin[i] = <<0, 1>>
    /\ event.client = <<1, 0>>
    /\ position[i] = <<101, 100>>

\* C6: a primary-button pointerdown while Idle starts a drag owned by the
\* event's pointer, records clickOrigin = client coordinates and
\* positionOrigin = position, requests capture for that pointer exactly when
\* a handle is mounted, and leaves position unchanged.
C6_DragStart ==
  [][\A i \in Instances :
       ( /\ Delivered(i, {"pointerdown"})
         /\ event'.button = Some(Primary)
         /\ Idle(i) )
       => /\ dragging'[i]
          /\ active_pointer_id'[i] = Some(event'.pointer_id)
          /\ click_origin'[i] = event'.client
          /\ modal_origin'[i] = position[i]
          /\ position'[i] = position[i]
          /\ IF mounted[i] # None
               THEN calls' = << Call("set_pointer_capture", event'.pointer_id) >>
               ELSE calls' = << >>
    ]_vars

\* C6 witness: a second drag starts from Idle on a mounted handle after the
\* element was moved, at a click point other than the default origin.
C6_Witness ==
  \E i \in Instances :
    /\ event.kind = "pointerdown" /\ event.target = i
    /\ event.button = Some(Primary)
    /\ owner_before = None
    /\ dragging[i] /\ mounted[i] # None /\ calls # << >>
    /\ position[i] # InitialPosition /\ modal_origin[i] = position[i]
    /\ click_origin[i] # InitialOrigin

\* C7: from Dragging(A), pointerup(A) or pointercancel(A) clears the owner
\* and goes Idle with position kept; pointerup or pointercancel of B # A
\* changes nothing; a pointerup delivered a second time changes nothing.
C7_ClosesOnce ==
  [][\A i \in Instances : \A a \in PointerIds :
       /\ ( Dragging(i, a) /\ Delivered(i, {"pointerup", "pointercancel"}) )
          => IF event'.pointer_id = a
               THEN /\ active_pointer_id'[i] = None
                    /\ ~dragging'[i]
                    /\ position'[i] = position[i]
               ELSE Fields(i)' = Fields(i)
       /\ ( /\ event.kind = "pointerup" /\ event.target = i
            /\ event.pointer_id = a /\ owner_before = Some(a)
            /\ Delivered(i, {"pointerup"}) /\ event'.pointer_id = a )
          => /\ Fields(i)' = Fields(i)
             /\ captured'[i] = captured[i]
    ]_vars

\* C7 witness: pointerup(A) was delivered again after it closed Dragging(A).
C7_Witness ==
  \E i \in Instances :
    /\ event.kind = "pointerup" /\ event.target = i
    /\ owner_before = None /\ calls = << >>
    /\ Idle(i) /\ mounted[i] # None
    /\ position[i] # InitialPosition

\* C8: pointerup, pointercancel or lostpointercapture delivered to an Idle
\* controller leaves it Idle with position, owner and origins unchanged and
\* issues no capture release call.
C8_IdempotentCancellation ==
  [][\A i \in Instances :
       ( /\ Idle(i)
         /\ Delivered(i, {"pointerup", "pointercancel",
                           "lostpointercapture"}) )
       => /\ Idle(i)'
          /\ position'[i] = position[i]
          /\ active_pointer_id'[i] = active_pointer_id[i]
          /\ click_origin'[i] = click_origin[i]
          /\ modal_origin'[i] = modal_origin[i]
          /\ calls' = << >>
    ]_vars

\* C8 witness: a pointercancel reached an Idle controller whose handle is
\* mounted and whose element was moved by an earlier drag.
C8_Witness ==
  \E i \in Instances :
    /\ event.kind = "pointercancel" /\ event.target = i
    /\ owner_before = None
    /\ Idle(i) /\ mounted[i] # None
    /\ position[i] # InitialPosition

\* C9: from Dragging(A), lostpointercapture clears the owner and returns to
\* Idle whatever pointer it is about, leaving position unchanged.
C9_CaptureLossSafetyNet ==
  [][\A i \in Instances :
       ( dragging[i] /\ Delivered(i, {"lostpointercapture"}) )
       => /\ active_pointer_id'[i] = None
          /\ ~dragging'[i]
          /\ position'[i] = position[i]
    ]_vars

\* C9 witness: capture loss of pointer 2 ended a drag owned by pointer 1.
C9_Witness ==
  \E i \in Instances :
    /\ event.kind = "lostpointercapture" /\ event.target = i
    /\ event.pointer_id = 2 /\ owner_before = Some(1)
    /\ Idle(i) /\ active_pointer_id[i] = None

\* C10: a pointerdown whose trigger button is not the primary button changes
\* no signal and requests no pointer capture.
C10_NonPrimaryRejected ==
  [][\A i \in Instances :
       ( Delivered(i, {"pointerdown"}) /\ event'.button # Some(Primary) )
       => /\ Fields(i)' = Fields(i)
          /\ captured'[i] = captured[i]
          /\ calls' = << >>
    ]_vars

\* C10 witness: a secondary-button pointerdown of pointer 2 arrived on a
\* mounted handle during a drag owned by pointer 1.
C10_Witness ==
  \E i \in Instances :
    /\ event.kind = "pointerdown" /\ event.target = i
    /\ event.button = Some("Secondary") /\ event.pointer_id = 2
    /\ mounted[i] # None
    /\ Dragging(i, 1) /\ owner_before = Some(1)


\* C11: after the same events, dragging flag, owner, origins and position
\* are the same with a handle mounted and capture calls succeeding or
\* failing (instance 1) as with no handle at all (instance 2); without a
\* handle a primary pointerdown still starts a drag, with no capture call,
\* and owner moves follow the displacement law.
C11_CaptureIndependence ==
  /\ InStep
     => /\ dragging[1] = dragging[2]
        /\ active_pointer_id[1] = active_pointer_id[2]
        /\ click_origin[1] = click_origin[2]
        /\ modal_origin[1] = modal_origin[2]
        /\ position[1] = position[2]
  /\ mounted[2] = None /\ captured[2] = {}
  /\ ( event.target = 2 /\ event.kind = "pointerdown"
         /\ event.button = Some(Primary) )
     => /\ Dragging(2, event.pointer_id)
        /\ calls = << >>
  /\ ( event.target = 2 /\ event.kind = "pointermove"
         /\ owner_before = Some(event.pointer_id) /\ dragging[2] )
     => /\ position[2][1]
             = modal_origin[2][1] + (event.client[1] - click_origin[2][1])
        /\ position[2][2]
             = modal_origin[2][2] + (event.client[2] - click_origin[2][2])

\* C11 witness: instance 1 is mounted and holds a capture left by a failed
\* release, instance 2 has no handle, and a later drag has moved both to
\* the same place.
C11_Witness ==
  /\ event.kind = "pointermove" /\ event.target = 2
  /\ owner_before = Some(event.pointer_id)
  /\ mounted[1] # None /\ mounted[2] = None
  /\ captured[1] # {} /\ event.pointer_id \notin captured[1]
  /\ dragging[1] /\ dragging[2]
  /\ position[1] # InitialPosition /\ position[2] = position[1]

\* C12: position starts at (100,100), and every step that changes it is a
\* pointermove of the current owner taken while dragging.
C12_PositionOnlyByOwnerMove ==
  /\ \A i \in Instances : position[i] = <<100, 100>>
  /\ [][\A i \in Instances :
          position'[i] # position[i]
          => /\ Delivered(i, {"pointermove"})
             /\ dragging[i]
             /\ active_pointer_id[i] = Some(event'.pointer_id)
       ]_vars

\* C12 witness: a mount arrived during a drag that had already moved the
\* element, and the element is where the drag put it.
C12_Witness ==
  \E i \in Instances :
    /\ event.kind = "mounted" /\ event.target = i
    /\ dragging[i]
    /\ position[i] # <<100, 100>>
    /\ position[i] = displaced(modal_origin[i], click_origin[i], <<0, 0>>)

\* C13: within a session an owner move back to the click origin returns
\* position to the position the session started at, whatever owner move
\* came before it.
C13_RoundTrip ==
  [][\A i \in Instances :
       ( /\ Delivered(i, {"pointermove"})
         /\ dragging[i]
         /\ active_pointer_id[i] = Some(event'.pointer_id)
         /\ event'.client = click_origin[i] )
       => /\ position'[i] = modal_origin[i]
          /\ ( /\ event.kind = "pointermove" /\ event.target = i
               /\ owner_before = active_pointer_id[i]
               /\ Some(event.pointer_id) = active_pointer_id[i] )
             => /\ position'[i][1]
                     = position[i][1] - (event.client[1] - click_origin[i][1])
                /\ position'[i][2]
                     = position[i][2] - (event.client[2] - click_origin[i][2])
    ]_vars

\* C13 witness: in a session started away from the initial position, at a
\* click point other than the default, the owner has moved back to the
\* click point and the element is back where the session started.
C13_Witness ==
  \E i \in Instances :
    /\ event.kind = "pointermove" /\ event.target = i
    /\ owner_before = Some(event.pointer_id) /\ dragging[i]
    /\ event.client = click_origin[i] /\ click_origin[i] # InitialOrigin
    /\ position[i] = modal_origin[i] /\ position[i] # InitialPosition

\* C15: a mount stores the handle and changes no other signal, in any
\* state; no other event changes the stored handle.
C15_MountOnlyStoresHandle ==
  [][\A i \in Instances :
       /\ Delivered(i, {"mounted"})
          => /\ mounted'[i] \in {Some(h) : h \in Handles}
             /\ position'[i] = position[i]
             /\ dragging'[i] = dragging[i]
             /\ active_pointer_id'[i] = active_pointer_id[i]
             /\ click_origin'[i] = click_origin[i]
             /\ modal_origin'[i] = modal_origin[i]
       /\ mounted'[i] # mounted[i] => Delivered(i, {"mounted"})
    ]_vars

\* C15 witness: the handle was mounted during a drag owned by pointer 2.
C15_Witness ==
  \E i \in Instances :
    /\ event.kind = "mounted" /\ event.target = i
    /\ mounted[i] # None
    /\ owner_before = Some(2) /\ Dragging(i, 2)
    /\ captured[i] = {}


\* C16: an event delivered to one instance leaves every signal of every
\* other instance unchanged, and an owner move on the instance it is
\* delivered to follows the displacement law with that instance's origins.
C16_InstanceIsolation ==
  [][\A i \in Instances :
       /\ event'.target # i
          => /\ Fields(i)' = Fields(i)
             /\ captured'[i] = captured[i]
       /\ ( /\ Delivered(i, {"pointermove"})
            /\ dragging[i]
            /\ active_pointer_id[i] = Some(event'.pointer_id) )
          => /\ position'[i][1]
                  = modal_origin[i][1] + (event'.client[1] - click_origin[i][1])
             /\ position'[i][2]
                  = modal_origin[i][2] + (event'.client[2] - click_origin[i][2])
    ]_vars

\* C16 witness: both instances are in a drag owned by pointer 1, started at
\* different click points, one of them mounted, and the drags have taken
\* them to different places.
C16_Witness ==
  /\ Instances = {1, 2}
  /\ event.kind = "pointermove" /\ event.target = 2
  /\ owner_before = Some(1)
  /\ Dragging(1, 1) /\ Dragging(2, 1)
  /\ mounted[1] # mounted[2]
  /\ click_origin[1] # click_origin[2]
  /\ position[1] # InitialPosition /\ position[2] # InitialPosition
  /\ position[1] # position[2]

\* C17: the only event that changes clickOrigin or positionOrigin is a
\* primary-button pointerdown.
C17_OriginsOnlyAtDragStart ==
  [][\A i \in Instances :
       ( click_origin'[i] # click_origin[i]
           \/ modal_origin'[i] # modal_origin[i] )
       => /\ Delivered(i, {"pointerdown"})
          /\ event'.button = Some(Primary)
    ]_vars

\* C17 witness: a session that started at a non-default click point and
\* moved the element was cancelled, and both origins are still those of
\* the session.
C17_Witness ==
  \E i \in Instances :
    /\ event.kind = "pointercancel" /\ event.target = i
    /\ owner_before = Some(event.pointer_id) /\ Idle(i)
    /\ click_origin[i] # InitialOrigin
    /\ modal_origin[i] \notin {InitialOrigin, position[i]}

\* C18: the first owner move after a primary pointerdown that started a
\* drag from Idle at client point c, the element being at p, to client
\* point m yields p + (m - c).
C18_DragsAccumulate ==
  [][\A i \in Instances :
       ( /\ event.kind = "pointerdown" /\ event.target = i
         /\ event.button = Some(Primary) /\ owner_before = None
         /\ Delivered(i, {"pointermove"})
         /\ event'.pointer_id = event.pointer_id )
       => /\ position'[i][1] = position[i][1] + (event'.client[1] - event.client[1])
          /\ position'[i][2] = position[i][2] + (event'.client[2] - event.client[2])
    ]_vars

\* C18 witness: a later session, started where an earlier one left the
\* element and at another click point, has moved the element.
C18_Witness ==
  \E i \in Instances :
    /\ event.kind = "pointermove" /\ event.target = i
    /\ owner_before = Some(event.pointer_id) /\ dragging[i]
    /\ modal_origin[i] # InitialPosition
    /\ click_origin[i] # InitialOrigin
    /\ position[i] \notin {modal_origin[i], InitialPosition}

\* C14: when the host eventually delivers a terminating event for an open
\* drag, every Dragging state is followed by Idle; and a drag ends only by
\* pointerup or pointercancel of its owner or by lostpointercapture.
C14_NoStuckDragging ==
  /\ dragging[1] ~> ~dragging[1]
  /\ [][\A i \in Instances :
          ( dragging[i] /\ ~dragging'[i] )
          => \/ /\ Delivered(i, {"pointerup", "pointercancel"})
                /\ active_pointer_id[i] = Some(event'.pointer_id)
             \/ Delivered(i, {"lostpointercapture"})
       ]_vars

\* C14 witness: a drag that moved the element was ended by the pointerup
\* of its owner on a mounted handle, the release call having failed.
C14_Witness ==
  \E i \in Instances :
    /\ event.kind = "pointerup" /\ event.target = i
    /\ owner_before = Some(event.pointer_id)
    /\ Idle(i) /\ active_pointer_id[i] = None
    /\ calls = << Call("release_pointer_capture", event.pointer_id) >>
    /\ position[i] # InitialPosition

====
